---- MODULE Spec2Model ----
(***************************************************************************)
(* Model of the file intake service of dist-vm-system                      *)
(* (distributed-apps/distributed-file-manager/sync-service.py).            *)
(*                                                                         *)
(* One route, POST /sync, handled by sync_file():                          *)
(*     file = request.files['file']                                        *)
(*     file.save(os.path.join('/shared', file.filename))                   *)
(*     return 'File synced successfully', 200                              *)
(*                                                                         *)
(* app.run() serves every request on a thread of its own, so the steps of  *)
(* several handlers interleave at the granularity of the system calls      *)
(* file.save() makes: open(dst, 'wb'), one write() per buffer of the       *)
(* upload, close().  A file name is a sequence of tokens, each either the  *)
(* separator "/" or one path component; a content is a sequence of         *)
(* buffers (the unit file.save() copies at a time).                        *)
(***************************************************************************)
EXTENDS Integers, Sequences, FiniteSets, TLC

(* ---------------------------- bounds ---------------------------------- *)
NReq      == 2      \* upload requests of a run
MaxChunks == 2      \* buffers of the largest upload

Req      == 1..NReq
Payloads == {"x", "y"}

(* An upload body: n buffers of the payload k. *)
Contents == { [i \in 1..n |-> k] : k \in Payloads, n \in 1..MaxChunks }

SEP == "/"

(* The declared file names tried: plain names, the empty name, a parent    *)
(* traversal, an absolute path and a name with a separator.                *)
Filenames ==
  { <<"a">>,
    <<"b">>,
    << >>,
    <<"..", SEP, "..", SEP, "etc", SEP, "passwd">>,
    <<SEP, "etc", SEP, "passwd">>,
    <<"sub", SEP, "a">> }

(* A declared name with no separator and no parent-directory segment.      *)
Valid(fn) == fn # << >> /\ \A i \in 1..Len(fn) : fn[i] \notin {SEP, ".."}

(* A declared name with a separator or a parent-directory segment          *)
(* (an absolute name starts with a separator).                             *)
Unsafe(fn) == \E i \in 1..Len(fn) : fn[i] \in {SEP, ".."}

(* What the multipart body of a request carries. *)
Kinds == {"file", "nofile", "malformed"}

(* -------------------------- path handling ----------------------------- *)
(* '/shared', the first argument of os.path.join. *)
Root == <<SEP, "shared">>

(* Canonical location of the storage root, and the directories that exist. *)
RootDir == <<"shared">>
Dirs    == { << >>, <<"shared">>, <<"etc">> }

(* A join that drops the declared name and stores every upload under one  *)
(* fixed name.                                                             *)
JoinFixed(a, b) == a \o <<SEP, "upload">>

(* os.path.join(a, b) of posixpath for two arguments. *)
Join(a, b) ==
  IF b # << >> /\ b[1] = SEP THEN b
  ELSE IF a = << >> \/ a[Len(a)] = SEP THEN a \o b
  ELSE a \o <<SEP>> \o b

Parent(loc) == IF loc = << >> THEN << >> ELSE SubSeq(loc, 1, Len(loc) - 1)

(* Path resolution as the kernel does it for open(): walk the components   *)
(* from the root directory; ".." goes to the parent, a component can only  *)
(* be looked up in an existing directory.                                  *)
RECURSIVE Walk(_, _)
Walk(loc, toks) ==
  IF toks = << >> THEN [err |-> "none", at |-> loc]
  ELSE LET t == Head(toks) IN
    IF t = SEP THEN Walk(loc, Tail(toks))
    ELSE IF loc \notin Dirs THEN [err |-> "FileNotFoundError", at |-> loc]
    ELSE IF t = ".." THEN Walk(Parent(loc), Tail(toks))
    ELSE IF t = "." THEN Walk(loc, Tail(toks))
    ELSE Walk(loc \o <<t>>, Tail(toks))

(* The outcome of open(path, 'wb') as far as the path decides it: the file *)
(* it names, or the OSError raised.                                        *)
Resolve(path) ==
  LET w == Walk(<< >>, path) IN
    IF w.err # "none" THEN w
    ELSE IF w.at \in Dirs THEN [err |-> "IsADirectoryError", at |-> w.at]
    ELSE IF path[Len(path)] = SEP THEN [err |-> "IsADirectoryError", at |-> w.at]
    ELSE IF Parent(w.at) \notin Dirs THEN [err |-> "FileNotFoundError", at |-> w.at]
    ELSE w

(* The destination sync_file() computes for a declared file name. *)
Dest(fn) == Resolve(Join(Root, fn))

(* ---------------------------- file system ----------------------------- *)
(* fs maps each existing regular file (by canonical location) to its       *)
(* content.  A hole left by a write past the end of file reads as "0".     *)
HOLE == "0"

(* open(p, 'ab'): create the file if absent, keep what it holds, and write *)
(* from its end.                                                           *)
OpenAB(f, p) ==
  [fs  |-> [q \in (DOMAIN f) \cup {p} |-> IF q \in DOMAIN f THEN f[q] ELSE << >>],
   pos |-> IF p \in DOMAIN f THEN Len(f[p]) ELSE 0]

(* open(p, 'wb'): create the file or truncate it to length zero; the file  *)
(* object starts at position 0.                                            *)
OpenWB(f, p) ==
  [fs  |-> [q \in (DOMAIN f) \cup {p} |-> IF q = p THEN << >> ELSE f[q]],
   pos |-> 0]

(* write() that ignores the position of the file object and always writes *)
(* at the start of the file.                                               *)
WriteAtStart(f, p, pos, b) ==
  [f EXCEPT ![p] = <<b>> \o (IF Len(f[p]) > 1 THEN Tail(f[p]) ELSE << >>)]

(* write() of one buffer b at offset pos of the file p. *)
WriteAt(f, p, pos, b) ==
  LET old == f[p]
      n   == IF Len(old) > pos + 1 THEN Len(old) ELSE pos + 1
      new == [i \in 1..n |-> IF i = pos + 1 THEN b
                             ELSE IF i <= Len(old) THEN old[i] ELSE HOLE]
  IN [f EXCEPT ![p] = new]

(* --------------------------- HTTP statuses ---------------------------- *)
OK200 == 200
BadRequest400 == 400
InternalServerError500 == 500

(* An application-wide error handler that answers every exception 500.    *)
StatusOfAll500(e) == InternalServerError500

(* A handler that swallows the exception and answers success.              *)
StatusOfSwallow(e) == OK200

(* Flask's conversion of an exception raised by a view into a response:    *)
(* an HTTPException (BadRequestKeyError) answers with its own code, any    *)
(* other exception with 500.                                               *)
StatusOf(e) == IF e = "BadRequestKeyError" THEN BadRequest400
               ELSE InternalServerError500

(* ------------------------------- state -------------------------------- *)
VARIABLES
  req,      \* per request: where its handler is, its input, its file object
  fs        \* the files that exist, with their content

vars == <<req, fs>>

NoPath == <<"?">>

Idle == [pc |-> "idle", kind |-> "nofile", filename |-> << >>, content |-> << >>,
         fd |-> "none", dst |-> NoPath, pos |-> 0, err |-> "none", resp |-> 0]

Init ==
  /\ req = [r \in Req |-> Idle]
  /\ fs = << >>

(* ------------------------------ actions ------------------------------- *)
(* A request reaches sync_file(), its file name drawn from names; line 38  *)
(* looks up the 'file' part.  A body without it (or one the form parser    *)
(* could not read, which leaves request.files empty) raises                *)
(* BadRequestKeyError.  Requests are numbered in the order they arrive.    *)
ArriveWith(r, names) ==
  /\ req[r].pc = "idle"
  /\ \A q \in Req : q < r => req[q].pc # "idle"
  /\ \/ \E k \in Kinds \ {"file"} :
          req' = [req EXCEPT ![r] = [Idle EXCEPT !.pc = "done", !.kind = k,
                                       !.err = "BadRequestKeyError",
                                       !.resp = StatusOf("BadRequestKeyError")]]
     \/ \E fn \in names, c \in Contents :
          req' = [req EXCEPT ![r] = [Idle EXCEPT !.pc = "open", !.kind = "file",
                                       !.filename = fn, !.content = c]]
  /\ UNCHANGED fs

Arrive(r) == ArriveWith(r, Filenames)

(* file.save(): dst = open(os.path.join('/shared', file.filename), 'wb').  *)
(* The path may not name a file that can be opened; where it does, the     *)
(* open may still be refused (the directory is not writable).              *)
Open(r) ==
  /\ req[r].pc = "open"
  /\ LET d == Dest(req[r].filename) IN
       \/ /\ d.err # "none"
          /\ req' = [req EXCEPT ![r].pc = "done", ![r].err = d.err,
                                ![r].resp = StatusOf(d.err)]
          /\ UNCHANGED fs
       \/ /\ d.err = "none"
          /\ fs' = OpenWB(fs, d.at).fs
          /\ req' = [req EXCEPT ![r].pc = "copy", ![r].fd = "open",
                                ![r].dst = d.at,
                                ![r].pos = OpenWB(fs, d.at).pos]
       \/ /\ d.err = "none"
          /\ req' = [req EXCEPT ![r].pc = "done", ![r].err = "PermissionError",
                                ![r].resp = StatusOf("PermissionError")]
          /\ UNCHANGED fs

(* copyfileobj(): write the next buffer of the upload at the file object's *)
(* position.  Any write may fail (the disk is full): the file is closed    *)
(* as it is and the OSError raised.                                        *)
WriteChunk(r) ==
  /\ req[r].pc = "copy"
  /\ req[r].pos < Len(req[r].content)
  /\ \/ /\ fs' = WriteAt(fs, req[r].dst, req[r].pos, req[r].content[req[r].pos + 1])
        /\ req' = [req EXCEPT ![r].pos = @ + 1]
     \/ /\ req' = [req EXCEPT ![r].pc = "done", ![r].fd = "closed",
                              ![r].err = "OSError",
                              ![r].resp = StatusOf("OSError")]
        /\ UNCHANGED fs

(* End of the copy: dst.close(), then line 40 answers 200. *)
Finish(r) ==
  /\ req[r].pc = "copy"
  /\ req[r].pos = Len(req[r].content)
  /\ req' = [req EXCEPT ![r].pc = "done", ![r].fd = "closed", ![r].resp = OK200]
  /\ UNCHANGED fs

Next == \E r \in Req : Arrive(r) \/ Open(r) \/ WriteChunk(r) \/ Finish(r)

Spec == Init /\ [][Next]_vars

(* Requests handled one at a time: a client that waits for each answer     *)
(* before it posts again.                                                  *)
ArriveSeq(r) ==
  /\ \A q \in Req : req[q].pc \in {"idle", "done"}
  /\ Arrive(r)

NextSeq == \E r \in Req : ArriveSeq(r) \/ Open(r) \/ WriteChunk(r) \/ Finish(r)

SpecSeq == Init /\ [][NextSeq]_vars

(* Uploads handled concurrently, all of them with valid file names.        *)
ArriveValid(r) == ArriveWith(r, {fn \in Filenames : Valid(fn)})

NextValid == \E r \in Req : ArriveValid(r) \/ Open(r) \/ WriteChunk(r) \/ Finish(r)

SpecValid == Init /\ [][NextValid]_vars

(* The effect on the file system of one upload handled alone and without   *)
(* a storage fault: lines 38-40 run from start to end.                     *)
RECURSIVE CopyFrom(_, _, _, _, _)
CopyFrom(f, p, pos, c, i) ==
  IF i > Len(c) THEN f
  ELSE CopyFrom(WriteAt(f, p, pos, c[i]), p, pos + 1, c, i + 1)

Post(f, fn, c) ==
  LET d == Dest(fn) IN
    IF d.err # "none" THEN f
    ELSE CopyFrom(OpenWB(f, d.at).fs, d.at, OpenWB(f, d.at).pos, c, 1)

(* sync_file() from the arrival of a request to its answer as one step:    *)
(* a request handled alone, the storage accepting every write.             *)
Handle(r) ==
  /\ req[r].pc = "idle"
  /\ \A q \in Req : q < r => req[q].pc = "done"
  /\ \/ /\ \E k \in Kinds \ {"file"} :
             req' = [req EXCEPT ![r] = [Idle EXCEPT !.pc = "done", !.kind = k,
                                          !.err = "BadRequestKeyError",
                                          !.resp = StatusOf("BadRequestKeyError")]]
        /\ UNCHANGED fs
     \/ \E fn \in Filenames, c \in Contents :
          LET d == Dest(fn) IN
            IF d.err # "none"
            THEN /\ req' = [req EXCEPT ![r] = [Idle EXCEPT !.pc = "done",
                                 !.kind = "file", !.filename = fn, !.content = c,
                                 !.err = d.err, !.resp = StatusOf(d.err)]]
                 /\ UNCHANGED fs
            ELSE /\ req' = [req EXCEPT ![r] = [Idle EXCEPT !.pc = "done",
                                 !.kind = "file", !.filename = fn, !.content = c,
                                 !.fd = "closed", !.dst = d.at,
                                 !.pos = OpenWB(fs, d.at).pos + Len(c),
                                 !.resp = OK200]]
                 /\ fs' = Post(fs, fn, c)

NextAtomic == \E r \in Req : Handle(r)

SpecAtomic == Init /\ [][NextAtomic]_vars


(* ------------------------- vocabulary of the claims ------------------- *)
(* root/filename for a valid name. *)
RootFile(fn) == RootDir \o fn

UnderRoot(p) == Len(p) > Len(RootDir) /\ SubSeq(p, 1, Len(RootDir)) = RootDir

StorageFault(e) == e \in {"PermissionError", "OSError"}

Is4xx(n) == n \in 400..499
Is5xx(n) == n \in 500..599

Done(r)     == req[r].pc = "done"
IsUpload(r) == req[r].pc # "idle" /\ req[r].kind = "file"

C2_TraversalRejected ==
  /\ \A r \in Req :
       (Done(r) /\ req[r].kind = "file" /\ Unsafe(req[r].filename))
       => (Is4xx(req[r].resp) /\ req[r].fd = "none")
  /\ \A p \in DOMAIN fs : UnderRoot(p)

(* ------------------------------ C3 ------------------------------------ *)
(* C3: a request without a 'file' part, or with a body the parser cannot   *)
(* read, is answered 4xx by a step that leaves the stored files as they    *)
(* were, and it never opens a file, whatever uploads run beside it.        *)
C3_MissingPartRejected ==
  [][\A r \in Req :
       (req[r].pc = "idle" /\ req'[r].pc # "idle" /\ req'[r].kind # "file")
       => ( /\ req'[r].pc = "done"
            /\ Is4xx(req'[r].resp)
            /\ req'[r].fd = "none"
            /\ fs' = fs )]_vars

(* A request without the part answered while an upload is being copied.    *)
C3_Witness ==
  \E r, q \in Req :
    /\ Done(r) /\ req[r].kind # "file" /\ req[r].resp = BadRequest400
    /\ req[q].pc = "copy" /\ req[q].pos = 1
    /\ fs[req[q].dst] # << >>

(* ------------------------------ C4 ------------------------------------ *)
(* C4: once two uploads of different contents under the same valid name    *)
(* have both been answered 200, the stored file is one of the two          *)
(* contents in full.                                                       *)
C4_SameNameNoMix ==
  \A r, q \in Req :
    ( /\ r # q /\ Done(r) /\ Done(q)
      /\ req[r].kind = "file" /\ req[q].kind = "file"
      /\ req[r].resp = OK200 /\ req[q].resp = OK200
      /\ Valid(req[r].filename) /\ req[q].filename = req[r].filename
      /\ req[r].content # req[q].content )
    => fs[RootFile(req[r].filename)] \in {req[r].content, req[q].content}

(* ------------------------------ C5 ------------------------------------ *)
(* C5: an upload with a valid name that no other upload shares, all        *)
(* uploads being valid and in any interleaving, is answered 200 once it    *)
(* is done (no storage fault having hit it), and its file then holds its   *)
(* own content.                                                            *)
C5_DistinctNamesIndependent ==
  \A r \in Req :
    ( /\ Done(r) /\ req[r].kind = "file"
      /\ Valid(req[r].filename)
      /\ ~StorageFault(req[r].err)
      /\ \A q \in Req \ {r} :
           IsUpload(q) => ( /\ Valid(req[q].filename)
                            /\ req[q].filename # req[r].filename ) )
    => ( /\ req[r].resp = OK200
         /\ RootFile(req[r].filename) \in DOMAIN fs
         /\ fs[RootFile(req[r].filename)] = req[r].content )

(* Two uploads under different names, the second done while the first is   *)
(* still being copied.                                                     *)
C5_Witness ==
  \E r, q \in Req :
    /\ r # q
    /\ Done(r) /\ req[r].kind = "file" /\ req[r].resp = OK200
    /\ req[q].pc = "copy" /\ req[q].pos = 1 /\ Len(req[q].content) = 2
    /\ Valid(req[r].filename) /\ Valid(req[q].filename)
    /\ req[r].filename # req[q].filename

(* ------------------------------ C6 ------------------------------------ *)
(* C6: from every storage state, posting a valid (filename, content)       *)
(* twice in sequence leaves what posting it once leaves, and the file      *)
(* then holds exactly that content, whatever was stored under the name.    *)
C6_Idempotent ==
  \A fn \in Filenames, c \in Contents :
    Valid(fn) =>
      LET once  == Post(fs, fn, c)
          twice == Post(once, fn, c)
      IN /\ twice = once
         /\ once[RootFile(fn)] = c
         /\ \A p \in DOMAIN fs : p # RootFile(fn) => once[p] = fs[p]

(* The same upload posted twice and answered 200 both times.               *)
C6_Witness ==
  \E r, q \in Req :
    /\ r # q /\ Done(r) /\ Done(q)
    /\ req[r].kind = "file" /\ req[q].kind = "file"
    /\ req[r].resp = OK200 /\ req[q].resp = OK200
    /\ Valid(req[r].filename)
    /\ req[r].filename = req[q].filename
    /\ req[r].content = req[q].content
    /\ fs[RootFile(req[r].filename)] = req[r].content

(* ------------------------------ C7 ------------------------------------ *)
(* C7: a request whose storage write failed (the path does not name a     *)
(* file that can be opened, the open is refused, a write fails) is         *)
(* answered 5xx, never 200; a request answered 200 raised nothing and      *)
(* wrote every buffer of its upload to a file it has closed; and once the  *)
(* requests before it are answered, whatever the answers, the next request *)
(* can be taken.                                                           *)
C7_SuccessXorFailure ==
  /\ \A r \in Req :
       Done(r) =>
         /\ (req[r].kind = "file" /\ req[r].err # "none") => Is5xx(req[r].resp)
         /\ req[r].resp = OK200 =>
              ( /\ req[r].err = "none"
                /\ req[r].fd = "closed"
                /\ req[r].pos = Len(req[r].content) )
  /\ \A r \in Req :
       (req[r].pc = "idle" /\ \A q \in Req : q < r => Done(q))
       => ENABLED ArriveSeq(r)

(* A write that failed half way, answered 500, with a later request taken. *)
C7_Witness ==
  \E r, q \in Req :
    /\ r < q
    /\ Done(r) /\ req[r].err = "OSError" /\ req[r].pos = 1
    /\ req[r].resp = InternalServerError500
    /\ Done(q) /\ req[q].resp = OK200

(* ------------------------------ C8 ------------------------------------ *)
(* C8: every file reachable under its name holds the complete content of   *)
(* an upload, never a part of one.                                         *)
C8_NoPartialFile ==
  \A p \in DOMAIN fs : \E r \in Req : IsUpload(r) /\ fs[p] = req[r].content

(* ------------------------------ C9 ------------------------------------ *)
(* C9: an upload whose 'file' part has an empty file name is answered 4xx  *)
(* and writes nothing.                                                     *)
C9_EmptyNameRejected ==
  \A r \in Req :
    (Done(r) /\ req[r].kind = "file" /\ req[r].filename = << >>)
    => (Is4xx(req[r].resp) /\ req[r].fd = "none")

(* ------------------------------ C10 ----------------------------------- *)
(* C10: a request answered 200 wrote its whole upload to one file, and a   *)
(* request answered 4xx or 5xx opened, truncated and wrote no file.        *)
C10_FailedRequestWritesNothing ==
  \A r \in Req :
    Done(r) =>
      /\ req[r].resp = OK200 =>
           (req[r].fd = "closed" /\ req[r].pos = Len(req[r].content))
      /\ req[r].resp # OK200 => (req[r].fd = "none" /\ req[r].pos = 0)
====
